---------------------------- MODULE Spec2Model ----------------------------
(***************************************************************************)
(* The reasoning loop of the chatbot: one question-answering cycle of the  *)
(* LangGraph workflow built by create_graph (src/src/graph.py), with the   *)
(* three nodes orchestrator_node, tool_executor_node and the writer        *)
(* (writer_agent of src/src/agents/writer.py, the node graph.py wires as   *)
(* "writer"), and the conditional edge should_continue.                    *)
(*                                                                         *)
(* A message of the log is a record.  Its field type is the message kind:  *)
(*   "human"      HumanMessage                                             *)
(*   "reasoning"  AIMessage, metadata.type = "reasoning"                   *)
(*   "tool_call"  AIMessage, metadata.type = "tool_call", one tool call    *)
(*   "tool"       ToolMessage                                              *)
(*   "final"      AIMessage, additional_kwargs.type = "final_answer"       *)
(* The Model Gateway, the tools and the writer's model are the             *)
(* environment: every one of their outcomes is a nondeterministic choice.  *)
(* The graph is run as create_graph defines it; the step limit the graph   *)
(* library may add on its own is not part of the modelled source.          *)
(***************************************************************************)
EXTENDS Integers, Sequences, FiniteSets, TLC

VARIABLES
    messages,         \* State.messages: the log of the cycle
    history,          \* State.history
    tools,            \* State.tools: the names of the registered tools
    ready_to_answer,  \* State.ready_to_answer
    final_answer,     \* State.final_answer
    thread_id,        \* config.configurable.thread_id
    node,             \* the node the driver runs next
    outcome,          \* the return site the last step left through
    user_input,       \* run_conversation: the question of the cycle
    session_history,  \* run_conversation: its list history
    printed,          \* run_conversation: what it printed for the cycle
    response          \* tool_executor_node: the selection it is handed when
                      \* the dispatch is run on a given selection

vars == <<messages, history, tools, ready_to_answer, final_answer, thread_id,
          node, outcome, user_input, session_history, printed, response>>

\* The locals of run_conversation, which no node of the graph can reach.
main_vars == <<user_input, session_history, printed>>

---------------------------------------------------------------------------
(* Program constants and the bounds of the environment.                    *)

MAX_REASONING_STEPS == 30

\* How often the gateway may answer use_tools = true within one cycle.
MaxToolRequests == 1

\* How many tool results one cycle may log; after that the gateway only
\* selects a tool name that is not registered.
MaxDispatch == 2

\* How many answers that decide neither for a tool nor for the final answer
\* the gateway may give after its first tool request of a cycle.  Before the
\* first tool request it may give any number of them, up to the step cap.
MaxThinkingAfterTool == 1

\* The longest log should_continue is evaluated on by itself.
MaxRouteLog == 3

Questions == {"q1"}
Answers == {"a1"}
NoAnswer == "None"
ThreadIds == {"t1"}
\* The registries a cycle is run with, and the names the gateway may select:
\* "tavily_search" is not registered in any of them.
Registries == {{}, {"python_repl"}}
SelectableNames == {"python_repl", "tavily_search"}
UnknownTool == "tavily_search"

---------------------------------------------------------------------------
(* Tool arguments: JSON values as Python holds them after json.loads.  A   *)
(* value has a kind, the text str() renders it as (kept for the kinds that *)
(* are no dict) and, for a dict, its items as pairs <<key, value>>.        *)

PyDict(items) == [kind |-> "dict", text |-> "", items |-> items]
PyStr(t) == [kind |-> "str", text |-> t, items |-> {}]
PyInt(t) == [kind |-> "int", text |-> t, items |-> {}]
PyBool(t) == [kind |-> "bool", text |-> t, items |-> {}]
PyNone == [kind |-> "None", text |-> "None", items |-> {}]

NoArgs == PyStr("")

\* json.loads on the texts the gateway is taken to produce; every other
\* text raises JSONDecodeError.
json_loads(t) ==
    CASE t = "{\"code\": \"print(1)\"}" ->
             [ok |-> TRUE, value |-> PyDict({<<"code", PyStr("print(1)")>>})]
      [] t = "{\"query\": \"tla\"}" ->
             [ok |-> TRUE, value |-> PyDict({<<"query", PyStr("tla")>>})]
      [] t = "{\"code\": \"print(1)\", \"timeout\": 5}" ->
             [ok |-> TRUE, value |-> PyDict({<<"code", PyStr("print(1)")>>,
                                           <<"timeout", PyInt("5")>>})]
      [] t = "{}" -> [ok |-> TRUE, value |-> PyDict({})]
      [] t = "5" -> [ok |-> TRUE, value |-> PyInt("5")]
      [] t = "true" -> [ok |-> TRUE, value |-> PyBool("True")]
      [] t = "null" -> [ok |-> TRUE, value |-> PyNone]
      [] t = "\"print(1)\"" -> [ok |-> TRUE, value |-> PyStr("print(1)")]
      [] OTHER -> [ok |-> FALSE, value |-> PyStr(t)]

\* str(tool_arguments) for a value that is no dict.
py_str(v) == v.text

\* tool_arguments.get(key, default)
dict_get(d, key, default) ==
    IF \E p \in d.items : p[1] = key
    THEN (CHOOSE p \in d.items : p[1] = key)[2]
    ELSE default

\* The arguments taken as they arrive, a JSON string included.
parse_arguments_as_is(tool_arguments) == tool_arguments

\* if isinstance(tool_arguments, str): try json.loads, except pass.
parse_arguments(tool_arguments) ==
    IF tool_arguments.kind = "str"
    THEN LET r == json_loads(tool_arguments.text) IN
         IF r.ok THEN r.value ELSE tool_arguments
    ELSE tool_arguments

\* "Prepare the actual arguments for the tool".
actual_args(tool_name, tool_arguments) ==
    IF tool_name = "python_repl"
    THEN IF tool_arguments.kind = "dict"
         THEN PyDict({<<"code", dict_get(tool_arguments, "code", PyStr(""))>>})
         ELSE PyDict({<<"code", PyStr(py_str(tool_arguments))>>})
    ELSE IF tool_name = "tavily_search"
    THEN IF tool_arguments.kind = "dict"
         THEN PyDict({<<"query", dict_get(tool_arguments, "query", PyStr(""))>>})
         ELSE PyDict({<<"query", PyStr(py_str(tool_arguments))>>})
    ELSE IF tool_arguments.kind = "dict"
         THEN tool_arguments
         ELSE PyDict({<<"input", tool_arguments>>})

\* The arguments of the gateway's selections within a cycle.
ToolArguments == {PyStr("args")}

---------------------------------------------------------------------------
(* Messages.                                                               *)

NoId == <<>>

Msg(t, c, u, r, id, n, e) ==
    [type |-> t, content |-> c, use_tools |-> u, ready_for_final_answer |-> r,
     call_id |-> id, name |-> n, args |-> NoArgs, error |-> e]

HumanMessage(c) == Msg("human", c, FALSE, FALSE, NoId, "", FALSE)

ReasoningMessage(u, r) == Msg("reasoning", "thinking", u, r, NoId, "", FALSE)

ToolCallMessage(id, n, a) ==
    [Msg("tool_call", "", FALSE, FALSE, id, n, FALSE) EXCEPT !.args = a]

ToolMessage(c, n, id, a, e) ==
    [Msg("tool", c, FALSE, FALSE, id, n, e) EXCEPT !.args = a]

FinalMessage(c) == Msg("final", c, FALSE, FALSE, NoId, "", FALSE)

Max(S) == CHOOSE x \in S : \A y \in S : y <= x

IsPrefix(s, t) == Len(s) <= Len(t) /\ \A i \in 1..Len(s) : s[i] = t[i]

OfType(msgs, t) == {i \in 1..Len(msgs) : msgs[i].type = t}

ReasoningCount(msgs) == Cardinality(OfType(msgs, "reasoning"))

ToolRequests(msgs) ==
    Cardinality({i \in OfType(msgs, "reasoning") : msgs[i].use_tools})

\* The reasoning messages that follow the first tool request of the log and
\* decide neither for a tool nor for the final answer.
ThinkingAfterTool(msgs) ==
    Cardinality({i \in OfType(msgs, "reasoning") :
                   /\ ~msgs[i].use_tools /\ ~msgs[i].ready_for_final_answer
                   /\ \E j \in OfType(msgs, "reasoning") :
                        j < i /\ msgs[j].use_tools})

ToolResults(msgs) == Cardinality(OfType(msgs, "tool"))

---------------------------------------------------------------------------
(* orchestrator_node: one reasoning step.  resp is the gateway's outcome:  *)
(* ok = FALSE when the call or the parse of its JSON raises.               *)

GatewayResponses ==
    [ok : {FALSE}, use_tools : {FALSE}, ready_for_final_answer : {FALSE}]
    \cup [ok : {TRUE}, use_tools : BOOLEAN, ready_for_final_answer : BOOLEAN]

\* The step whose fallback asks for two logged reasoning messages.
orchestrator_node_fallback_two(msgs, ready, resp) ==
    LET reasoning_count == ReasoningCount(msgs) IN
    IF reasoning_count >= MAX_REASONING_STEPS
    THEN [messages |-> msgs, ready_to_answer |-> TRUE, outcome |-> "cap",
          raised |-> FALSE]
    ELSE IF resp.ok
    THEN [messages |-> Append(msgs, ReasoningMessage(resp.use_tools,
                                         resp.ready_for_final_answer)),
          ready_to_answer |-> resp.ready_for_final_answer,
          outcome |-> "reasoned", raised |-> FALSE]
    ELSE [messages |-> msgs, ready_to_answer |-> reasoning_count >= 2,
          outcome |-> "fallback", raised |-> FALSE]

\* The step without the except clause around the gateway call.
orchestrator_node_no_except(msgs, ready, resp) ==
    LET reasoning_count == ReasoningCount(msgs) IN
    IF reasoning_count >= MAX_REASONING_STEPS
    THEN [messages |-> msgs, ready_to_answer |-> TRUE, outcome |-> "cap",
          raised |-> FALSE]
    ELSE IF resp.ok
    THEN [messages |-> Append(msgs, ReasoningMessage(resp.use_tools,
                                         resp.ready_for_final_answer)),
          ready_to_answer |-> resp.ready_for_final_answer,
          outcome |-> "reasoned", raised |-> FALSE]
    ELSE [messages |-> msgs, ready_to_answer |-> ready,
          outcome |-> "fallback", raised |-> TRUE]

\* The step whose cap lets one more reasoning message through.
orchestrator_node_cap_late(msgs, ready, resp) ==
    LET reasoning_count == ReasoningCount(msgs) IN
    IF reasoning_count > MAX_REASONING_STEPS
    THEN [messages |-> msgs, ready_to_answer |-> TRUE, outcome |-> "cap",
          raised |-> FALSE]
    ELSE IF resp.ok
    THEN [messages |-> Append(msgs, ReasoningMessage(resp.use_tools,
                                         resp.ready_for_final_answer)),
          ready_to_answer |-> resp.ready_for_final_answer,
          outcome |-> "reasoned", raised |-> FALSE]
    ELSE [messages |-> msgs, ready_to_answer |-> reasoning_count > 0,
          outcome |-> "fallback", raised |-> FALSE]

\* The step that writes the answer itself once it declares it ready.
orchestrator_node_answers(msgs, ready, resp) ==
    LET reasoning_count == ReasoningCount(msgs) IN
    IF reasoning_count >= MAX_REASONING_STEPS
    THEN [messages |-> msgs, ready_to_answer |-> TRUE, outcome |-> "cap",
          raised |-> FALSE]
    ELSE IF resp.ok
    THEN [messages |->
              IF resp.ready_for_final_answer
              THEN msgs \o <<ReasoningMessage(resp.use_tools, TRUE),
                             FinalMessage("thinking")>>
              ELSE Append(msgs, ReasoningMessage(resp.use_tools, FALSE)),
          ready_to_answer |-> resp.ready_for_final_answer,
          outcome |-> "reasoned", raised |-> FALSE]
    ELSE [messages |-> msgs, ready_to_answer |-> reasoning_count > 0,
          outcome |-> "fallback", raised |-> FALSE]

\* The step that holds ready_to_answer back while a tool is requested.
orchestrator_node_ready_unless_tools(msgs, ready, resp) ==
    LET reasoning_count == ReasoningCount(msgs) IN
    IF reasoning_count >= MAX_REASONING_STEPS
    THEN [messages |-> msgs, ready_to_answer |-> TRUE, outcome |-> "cap",
          raised |-> FALSE]
    ELSE IF resp.ok
    THEN [messages |-> Append(msgs, ReasoningMessage(resp.use_tools,
                                         resp.ready_for_final_answer)),
          ready_to_answer |-> resp.ready_for_final_answer /\ ~resp.use_tools,
          outcome |-> "reasoned", raised |-> FALSE]
    ELSE [messages |-> msgs, ready_to_answer |-> reasoning_count > 0,
          outcome |-> "fallback", raised |-> FALSE]

orchestrator_node(msgs, ready, resp) ==
    LET reasoning_count == ReasoningCount(msgs) IN
    IF reasoning_count >= MAX_REASONING_STEPS
    THEN [messages |-> msgs, ready_to_answer |-> TRUE, outcome |-> "cap",
          raised |-> FALSE]
    ELSE IF resp.ok
    THEN [messages |-> Append(msgs, ReasoningMessage(resp.use_tools,
                                         resp.ready_for_final_answer)),
          ready_to_answer |-> resp.ready_for_final_answer,
          outcome |-> "reasoned", raised |-> FALSE]
    ELSE [messages |-> msgs, ready_to_answer |-> reasoning_count > 0,
          outcome |-> "fallback", raised |-> FALSE]

---------------------------------------------------------------------------
(* should_continue: the conditional edge after the orchestrator.           *)

\* The edge with its default branch leading to the writer.
should_continue_default_writer(msgs, ready) ==
    LET R == OfType(msgs, "reasoning") IN
    IF R = {} THEN "writer"
    ELSE LET last_reasoning == msgs[Max(R)] IN
         IF last_reasoning.use_tools THEN "tools"
         ELSE IF last_reasoning.ready_for_final_answer \/ ready THEN "writer"
         ELSE "writer"

\* The edge that looks at the ready flags before the tool request.
should_continue_ready_first(msgs, ready) ==
    LET R == OfType(msgs, "reasoning") IN
    IF R = {} THEN "orchestrator"
    ELSE LET last_reasoning == msgs[Max(R)] IN
         IF last_reasoning.ready_for_final_answer \/ ready THEN "writer"
         ELSE IF last_reasoning.use_tools THEN "tools"
         ELSE "orchestrator"

\* The edge that consults ready_to_answer when the log has no reasoning
\* message.
should_continue_flag_fallback(msgs, ready) ==
    LET R == OfType(msgs, "reasoning") IN
    IF R = {} THEN (IF ready THEN "writer" ELSE "orchestrator")
    ELSE LET last_reasoning == msgs[Max(R)] IN
         IF last_reasoning.use_tools THEN "tools"
         ELSE IF last_reasoning.ready_for_final_answer \/ ready THEN "writer"
         ELSE "orchestrator"

\* The edge with its default branch leading to the tools.
should_continue_tools_default(msgs, ready) ==
    LET R == OfType(msgs, "reasoning") IN
    IF R = {} THEN "tools"
    ELSE LET last_reasoning == msgs[Max(R)] IN
         IF last_reasoning.use_tools THEN "tools"
         ELSE IF last_reasoning.ready_for_final_answer \/ ready THEN "writer"
         ELSE "tools"

should_continue(msgs, ready) ==
    LET R == OfType(msgs, "reasoning") IN
    IF R = {} THEN "orchestrator"
    ELSE LET last_reasoning == msgs[Max(R)] IN
         IF last_reasoning.use_tools THEN "tools"
         ELSE IF last_reasoning.ready_for_final_answer \/ ready THEN "writer"
         ELSE "orchestrator"

---------------------------------------------------------------------------
(* tool_executor_node.  sel is the gateway's tool selection (ok = FALSE    *)
(* when the call or the parse raises), inv is what tool.invoke does.       *)

Selections ==
    [ok : {FALSE}, tool_name : {UnknownTool}, tool_arguments : ToolArguments]
    \cup [ok : {TRUE}, tool_name : SelectableNames,
          tool_arguments : ToolArguments]

\* No selection at hand.
NoSelection == [ok |-> FALSE, tool_name |-> "None", tool_arguments |-> NoArgs]

Invocations == {"returns", "raises"}

ErrorToolMessage(tid, e) ==
    ToolMessage(<<"Tool execution failed", e>>, "error",
                <<"tool", tid, "error">>, NoArgs, TRUE)

\* The dispatch with the result's id taken after the call was appended.
tool_executor_node_late_id(msgs, registry, tid, sel, inv) ==
    IF registry = {}
    THEN [messages |-> msgs, outcome |-> "no_tools", raised |-> FALSE]
    ELSE IF ~sel.ok
    THEN [messages |-> Append(msgs, ErrorToolMessage(tid, "gateway error")),
          outcome |-> "select_failed", raised |-> FALSE]
    ELSE IF sel.tool_name \in registry
    THEN LET args == actual_args(sel.tool_name,
                                 parse_arguments(sel.tool_arguments))
             tool_call_message ==
                 ToolCallMessage(<<"call", tid, ToString(Len(msgs))>>,
                                 sel.tool_name, args)
             tool_message ==
                 ToolMessage("result", sel.tool_name,
                             <<"call", tid, ToString(Len(msgs) + 1)>>,
                             args, FALSE)
         IN  IF inv = "returns"
             THEN [messages |-> msgs \o <<tool_call_message, tool_message>>,
                   outcome |-> "tool_ok", raised |-> FALSE]
             ELSE [messages |-> Append(msgs, ErrorToolMessage(tid, "tool error")),
                   outcome |-> "tool_raised", raised |-> FALSE]
    ELSE [messages |-> msgs, outcome |-> "unknown_tool", raised |-> FALSE]

\* The dispatch without the except clause around tool.invoke.
tool_executor_node_propagates(msgs, registry, tid, sel, inv) ==
    IF registry = {}
    THEN [messages |-> msgs, outcome |-> "no_tools", raised |-> FALSE]
    ELSE IF ~sel.ok
    THEN [messages |-> Append(msgs, ErrorToolMessage(tid, "gateway error")),
          outcome |-> "select_failed", raised |-> FALSE]
    ELSE IF sel.tool_name \in registry
    THEN LET args == actual_args(sel.tool_name,
                                 parse_arguments(sel.tool_arguments))
             tool_call_id == <<"call", tid, ToString(Len(msgs))>>
             tool_call_message ==
                 ToolCallMessage(tool_call_id, sel.tool_name, args)
             tool_message ==
                 ToolMessage("result", sel.tool_name, tool_call_id,
                             args, FALSE)
         IN  IF inv = "returns"
             THEN [messages |-> msgs \o <<tool_call_message, tool_message>>,
                   outcome |-> "tool_ok", raised |-> FALSE]
             ELSE [messages |-> msgs, outcome |-> "tool_raised",
                   raised |-> TRUE]
    ELSE [messages |-> msgs, outcome |-> "unknown_tool", raised |-> FALSE]

\* The dispatch that only logs a warning when the selection fails.
tool_executor_node_select_silent(msgs, registry, tid, sel, inv) ==
    IF registry = {}
    THEN [messages |-> msgs, outcome |-> "no_tools", raised |-> FALSE]
    ELSE IF ~sel.ok
    THEN [messages |-> msgs, outcome |-> "select_failed", raised |-> FALSE]
    ELSE IF sel.tool_name \in registry
    THEN LET args == actual_args(sel.tool_name,
                                 parse_arguments(sel.tool_arguments))
             tool_call_id == <<"call", tid, ToString(Len(msgs))>>
             tool_call_message ==
                 ToolCallMessage(tool_call_id, sel.tool_name, args)
             tool_message ==
                 ToolMessage("result", sel.tool_name, tool_call_id,
                             args, FALSE)
         IN  IF inv = "returns"
             THEN [messages |-> msgs \o <<tool_call_message, tool_message>>,
                   outcome |-> "tool_ok", raised |-> FALSE]
             ELSE [messages |-> Append(msgs, ErrorToolMessage(tid, "tool error")),
                   outcome |-> "tool_raised", raised |-> FALSE]
    ELSE [messages |-> msgs, outcome |-> "unknown_tool", raised |-> FALSE]

tool_executor_node(msgs, registry, tid, sel, inv) ==
    IF registry = {}
    THEN [messages |-> msgs, outcome |-> "no_tools", raised |-> FALSE]
    ELSE IF ~sel.ok
    THEN [messages |-> Append(msgs, ErrorToolMessage(tid, "gateway error")),
          outcome |-> "select_failed", raised |-> FALSE]
    ELSE IF sel.tool_name \in registry
    THEN LET args == actual_args(sel.tool_name,
                                 parse_arguments(sel.tool_arguments))
             tool_call_id == <<"call", tid, ToString(Len(msgs))>>
             tool_call_message ==
                 ToolCallMessage(tool_call_id, sel.tool_name, args)
             tool_message ==
                 ToolMessage("result", sel.tool_name, tool_call_id,
                             args, FALSE)
         IN  IF inv = "returns"
             THEN [messages |-> msgs \o <<tool_call_message, tool_message>>,
                   outcome |-> "tool_ok", raised |-> FALSE]
             ELSE [messages |-> Append(msgs, ErrorToolMessage(tid, "tool error")),
                   outcome |-> "tool_raised", raised |-> FALSE]
    ELSE [messages |-> msgs, outcome |-> "unknown_tool", raised |-> FALSE]

---------------------------------------------------------------------------
(* writer_agent.  The state holds no current_question and no               *)
(* reasoning_steps key, so the writer reads "" and [].  resp is the        *)
(* outcome of the writer's model call; the writer catches nothing.         *)

WriterResponses == [ok : {TRUE}, content : Answers]
                   \cup [ok : {FALSE}, content : {NoAnswer}]

current_question == ""

\* The writer appending the answer to the log it was given, once for the
\* log and once for the question-answer pair.
writer_agent_keeps_log(msgs, hist, final, resp) ==
    IF resp.ok
    THEN [final_answer |-> resp.content,
          history |-> Append(hist, <<current_question, resp.content>>),
          messages |-> msgs \o <<FinalMessage(resp.content),
                                  HumanMessage(current_question),
                                  FinalMessage(resp.content)>>,
          outcome |-> "written", raised |-> FALSE]
    ELSE [final_answer |-> final, history |-> hist, messages |-> msgs,
          outcome |-> "writer_failed", raised |-> TRUE]

\* state.get("reasoning_steps", []): the state has no such key.
reasoning_steps == <<>>

\* The list handed to model.invoke.  Each entry names its role and what
\* its text is built from.
writer_messages(hist) ==
    <<[role |-> "system", part |-> "prompt", from |-> hist],
      [role |-> "human", part |-> "question", from |-> current_question]>>
    \o [i \in 1..Len(reasoning_steps) |->
          [role |-> "system", part |-> "step", from |-> reasoning_steps[i]]]
    \o <<[role |-> "system", part |-> "task", from |-> ""]>>

\* The writer that answers with a text of its own when its model fails.
writer_agent_fallback_text(msgs, hist, final, resp) ==
    IF resp.ok
    THEN [final_answer |-> resp.content,
          history |-> Append(hist, <<current_question, resp.content>>),
          messages |-> <<HumanMessage(current_question),
                         FinalMessage(resp.content)>>,
          outcome |-> "written", raised |-> FALSE]
    ELSE [final_answer |-> "Sorry", history |-> hist,
          messages |-> <<HumanMessage(current_question),
                         FinalMessage("Sorry")>>,
          outcome |-> "writer_failed", raised |-> FALSE]

writer_agent(msgs, hist, final, resp) ==
    IF resp.ok
    THEN [final_answer |-> resp.content,
          history |-> Append(hist, <<current_question, resp.content>>),
          messages |-> <<HumanMessage(current_question),
                         FinalMessage(resp.content)>>,
          outcome |-> "written", raised |-> FALSE]
    ELSE [final_answer |-> final, history |-> hist, messages |-> msgs,
          outcome |-> "writer_failed", raised |-> TRUE]

---------------------------------------------------------------------------
(* The driver: the compiled graph of create_graph.  A node's update is     *)
(* written to the state, then the node's outgoing edge is taken; an        *)
(* exception that leaves a node ends the run ("raised").                   *)

\* graph.add_edge("tools", "orchestrator") with the writer as its target.
tools_edge_to_writer == "writer"

\* The edge that leaves the tools node.
tools_edge == "orchestrator"

\* graph.add_edge("writer", END) with the orchestrator as its target.
writer_edge_to_orchestrator == "orchestrator"

\* The edge that leaves the writer node.
writer_edge == "END"

Init ==
    /\ user_input \in Questions
    /\ session_history = <<>>
    /\ printed = NoAnswer
    /\ response = NoSelection
    /\ messages = <<HumanMessage(user_input)>>
    /\ history = session_history
    /\ tools \in Registries
    /\ ready_to_answer = FALSE
    /\ final_answer = NoAnswer
    /\ thread_id \in ThreadIds
    /\ node = "orchestrator"
    /\ outcome = "start"

Orchestrator ==
    /\ node = "orchestrator"
    /\ \E resp \in GatewayResponses :
         /\ resp.use_tools => ToolRequests(messages) < MaxToolRequests
         /\ (resp.ok /\ ~resp.use_tools /\ ~resp.ready_for_final_answer)
                => ThinkingAfterTool(messages) < MaxThinkingAfterTool
         /\ LET r == orchestrator_node(messages, ready_to_answer, resp) IN
              /\ messages' = r.messages
              /\ ready_to_answer' = r.ready_to_answer
              /\ outcome' = r.outcome
              /\ node' = IF r.raised THEN "raised" ELSE "should_continue"
    /\ UNCHANGED <<history, tools, final_answer, thread_id>>
    /\ UNCHANGED <<main_vars, response>>

Route ==
    /\ node = "should_continue"
    /\ node' = should_continue(messages, ready_to_answer)
    /\ UNCHANGED <<messages, history, tools, ready_to_answer, final_answer,
                   thread_id, outcome>>
    /\ UNCHANGED <<main_vars, response>>

Tools ==
    /\ node = "tools"
    /\ \E sel \in Selections, inv \in Invocations :
         /\ ToolResults(messages) >= MaxDispatch =>
                sel.ok /\ sel.tool_name = UnknownTool
         /\ LET r == tool_executor_node(messages, tools, thread_id, sel, inv) IN
              /\ messages' = r.messages
              /\ outcome' = r.outcome
              /\ node' = IF r.raised THEN "raised" ELSE tools_edge
    /\ UNCHANGED <<history, tools, ready_to_answer, final_answer, thread_id>>
    /\ UNCHANGED <<main_vars, response>>

Writer ==
    /\ node = "writer"
    /\ \E resp \in WriterResponses :
         LET r == writer_agent(messages, history, final_answer, resp) IN
           /\ messages' = r.messages
           /\ history' = r.history
           /\ final_answer' = r.final_answer
           /\ outcome' = r.outcome
           /\ node' = IF r.raised THEN "raised" ELSE writer_edge
    /\ UNCHANGED <<tools, ready_to_answer, thread_id>>
    /\ UNCHANGED <<main_vars, response>>

Next == Orchestrator \/ Route \/ Tools \/ Writer

Spec == Init /\ [][Next]_vars

\* The driver runs the next node as long as there is one.
FairSpec == Spec /\ WF_vars(Next)

---------------------------------------------------------------------------
(* The cycle with a gateway that always succeeds and never decides: every  *)
(* answer has use_tools = false and ready_for_final_answer = false.        *)

StubResponse ==
    [ok |-> TRUE, use_tools |-> FALSE, ready_for_final_answer |-> FALSE]

OrchestratorStub ==
    /\ node = "orchestrator"
    /\ LET r == orchestrator_node(messages, ready_to_answer, StubResponse) IN
         /\ messages' = r.messages
         /\ ready_to_answer' = r.ready_to_answer
         /\ outcome' = r.outcome
         /\ node' = IF r.raised THEN "raised" ELSE "should_continue"
    /\ UNCHANGED <<history, tools, final_answer, thread_id>>
    /\ UNCHANGED <<main_vars, response>>

BudgetNext == OrchestratorStub \/ Route \/ Writer

BudgetSpec == Init /\ [][BudgetNext]_vars

---------------------------------------------------------------------------
(* should_continue as a function of the state it is handed: the edge is    *)
(* evaluated once on every short log over RouteMessages and on either      *)
(* value of ready_to_answer.                                               *)

RouteMessages ==
    {HumanMessage(q) : q \in Questions}
    \cup {ReasoningMessage(u, r) : u \in BOOLEAN, r \in BOOLEAN}
    \cup {ErrorToolMessage(t, "tool error") : t \in ThreadIds}

RouteLogs == UNION {[1..n -> RouteMessages] : n \in 0..MaxRouteLog}

RouteInit ==
    /\ messages \in RouteLogs
    /\ ready_to_answer \in BOOLEAN
    /\ history = <<>>
    /\ tools \in Registries
    /\ final_answer = NoAnswer
    /\ thread_id \in ThreadIds
    /\ node = "should_continue"
    /\ outcome = "start"
    /\ user_input \in Questions
    /\ session_history = <<>>
    /\ printed = NoAnswer
    /\ response = NoSelection

RouteSpec == RouteInit /\ [][Route]_vars

---------------------------------------------------------------------------
(* tool_executor_node as a function of the selection it works on: the      *)
(* dispatch is run once on every selection of RawSelections, from the      *)
(* point where response has been read (tool_executor.py, line 93), with    *)
(* the log of a first tool request and each registry of ArgsRegistries.    *)

ArgsNames == {"python_repl", "tavily_search", "calculator"}

ArgsRegistries ==
    {{"python_repl"}, {"python_repl", "tavily_search"}, ArgsNames}

\* What arrives as tool_arguments: JSON objects, and strings that do or do
\* not hold JSON.
RawArguments ==
    {PyDict({<<"code", PyStr("print(1)")>>}),
     PyDict({<<"query", PyStr("tla")>>}),
     PyDict({<<"code", PyStr("print(1)")>>, <<"timeout", PyInt("5")>>}),
     PyDict({})}
    \cup {PyStr(t) : t \in {"{\"code\": \"print(1)\"}",
                           "{\"query\": \"tla\"}",
                           "{\"code\": \"print(1)\", \"timeout\": 5}",
                           "{}", "5", "true", "null", "\"print(1)\"",
                           "print(1)", "tla", "{code: print(1)}"}}

RawSelections ==
    [ok : {TRUE}, tool_name : ArgsNames, tool_arguments : RawArguments]

ArgsInit ==
    /\ user_input \in Questions
    /\ session_history = <<>>
    /\ printed = NoAnswer
    /\ response \in RawSelections
    /\ messages = <<HumanMessage(user_input), ReasoningMessage(TRUE, FALSE)>>
    /\ history = session_history
    /\ tools \in ArgsRegistries
    /\ ready_to_answer = FALSE
    /\ final_answer = NoAnswer
    /\ thread_id \in ThreadIds
    /\ node = "tools"
    /\ outcome = "reasoned"

Dispatch ==
    /\ node = "tools"
    /\ response # NoSelection
    /\ \E inv \in Invocations :
         LET r == tool_executor_node(messages, tools, thread_id, response, inv) IN
           /\ messages' = r.messages
           /\ outcome' = r.outcome
           /\ node' = IF r.raised THEN "raised" ELSE tools_edge
    /\ UNCHANGED <<history, tools, ready_to_answer, final_answer, thread_id>>
    /\ UNCHANGED <<main_vars, response>>

ArgsSpec == ArgsInit /\ [][Dispatch]_vars

---------------------------------------------------------------------------
(* run_conversation: the loop around the graph.  Each question starts a    *)
(* cycle from a fresh initial_state; after workflow.invoke the final       *)
(* answer is looked up in the messages of the result.  A message built     *)
(* without metadata= has no attribute metadata, so reading it raises.      *)

IsAIMessage(m) == m.type \in {"reasoning", "tool_call", "final"}

HasMetadata(m) == m.type \in {"reasoning", "tool_call", "tool"}

\* metadata.get("type"): the tool results carry no "type" key.
MetadataType(m) ==
    IF m.type \in {"reasoning", "tool_call"} THEN m.type ELSE "None"

\* for msg in reversed(result["messages"]), from position i downwards.
RECURSIVE FindFinalAnswer(_, _)
FindFinalAnswer(msgs, i) ==
    IF i = 0 THEN [raised |-> FALSE, final_answer |-> NoAnswer]
    ELSE IF ~IsAIMessage(msgs[i]) THEN FindFinalAnswer(msgs, i - 1)
    ELSE IF ~HasMetadata(msgs[i])
    THEN [raised |-> TRUE, final_answer |-> NoAnswer]
    ELSE IF MetadataType(msgs[i]) = "final_answer"
    THEN [raised |-> FALSE, final_answer |-> msgs[i].content]
    ELSE FindFinalAnswer(msgs, i - 1)

\* The state a cycle leaves behind for run_conversation when
\* workflow.invoke does not return: initial_state, as it was built.
Abandoned ==
    /\ messages' = <<HumanMessage(user_input)>>
    /\ history' = session_history
    /\ ready_to_answer' = FALSE
    /\ final_answer' = NoAnswer
    /\ UNCHANGED <<tools, thread_id, user_input, session_history, response>>

\* The next question appended to the messages of the last result.
Ask_keeps_log ==
    /\ node = "prompt"
    /\ user_input' \in Questions
    /\ thread_id' \in ThreadIds
    /\ messages' = Append(messages, HumanMessage(user_input'))
    /\ history' = session_history
    /\ ready_to_answer' = FALSE
    /\ final_answer' = NoAnswer
    /\ printed' = NoAnswer
    /\ node' = "orchestrator"
    /\ outcome' = "start"
    /\ UNCHANGED <<tools, session_history, response>>

Ask ==
    /\ node = "prompt"
    /\ user_input' \in Questions
    /\ thread_id' \in ThreadIds
    /\ messages' = <<HumanMessage(user_input')>>
    /\ history' = session_history
    /\ ready_to_answer' = FALSE
    /\ final_answer' = NoAnswer
    /\ printed' = NoAnswer
    /\ node' = "orchestrator"
    /\ outcome' = "start"
    /\ UNCHANGED <<tools, session_history, response>>

Clear ==
    /\ node = "prompt"
    /\ session_history' = <<>>
    /\ printed' = "History cleared."
    /\ outcome' = "cleared"
    /\ UNCHANGED <<messages, history, tools, ready_to_answer, final_answer,
                   thread_id, node, user_input, response>>

Quit ==
    /\ node = "prompt"
    /\ node' = "quit"
    /\ printed' = "Goodbye!"
    /\ outcome' = "quit"
    /\ UNCHANGED <<messages, history, tools, ready_to_answer, final_answer,
                   thread_id, user_input, session_history, response>>

\* workflow.invoke has returned.
PrintAnswer ==
    /\ node = "END"
    /\ LET found == FindFinalAnswer(messages, Len(messages)) IN
         IF found.raised
         THEN /\ printed' = "Error"
              /\ outcome' = "lookup_raised"
              /\ UNCHANGED session_history
         ELSE IF found.final_answer # NoAnswer
         THEN /\ printed' = found.final_answer
              /\ outcome' = "answered"
              /\ session_history' =
                     Append(session_history, <<user_input, found.final_answer>>)
         ELSE /\ printed' = "I couldn't generate a response."
              /\ outcome' = "no_response"
              /\ UNCHANGED session_history
    /\ node' = "prompt"
    /\ UNCHANGED <<messages, history, tools, ready_to_answer, final_answer,
                   thread_id, user_input, response>>

\* except Exception with the appended pair of a finished cycle.
Except_records_pair ==
    /\ node = "raised"
    /\ node' = "prompt"
    /\ printed' = "Error"
    /\ outcome' = "error"
    /\ messages' = <<HumanMessage(user_input)>>
    /\ history' = session_history
    /\ ready_to_answer' = FALSE
    /\ final_answer' = NoAnswer
    /\ session_history' = Append(session_history, <<user_input, "Error">>)
    /\ UNCHANGED <<tools, thread_id, user_input, response>>

\* An exception has left workflow.invoke.
Except ==
    /\ node = "raised"
    /\ node' = "prompt"
    /\ printed' = "Error"
    /\ outcome' = "error"
    /\ Abandoned

\* KeyboardInterrupt while workflow.invoke runs.
Interrupt ==
    /\ node \in {"orchestrator", "should_continue", "tools", "writer"}
    /\ node' = "prompt"
    /\ printed' = "Interrupted"
    /\ outcome' = "interrupted"
    /\ Abandoned

SessionNext ==
    Next \/ Ask \/ Clear \/ Quit \/ PrintAnswer \/ Except \/ Interrupt

SessionSpec == Init /\ [][SessionNext]_vars

---------------------------------------------------------------------------
(* Properties of the reasoning loop.                                       *)

Last(s) == s[Len(s)]

NodeNames == {"orchestrator", "tools", "writer"}

Finished == {"END", "raised"}

\* C1: termination.  Whatever the gateway and the tools do, a cycle that is
\* at the orchestrator eventually ends: it reaches END through the writer
\* (or the writer's own model call fails, which is not a gateway outcome
\* of the loop).
C1_Termination == (node = "orchestrator") ~> (node \in Finished)

\* C2: budget exhaustion forces finalization.  An orchestrator step taken
\* with MAX_REASONING_STEPS or more reasoning messages in the log appends
\* nothing, sets ready_to_answer, and the edge taken next leads to the
\* writer, whatever flags the last reasoning message carries.
C2_BudgetForcesWriter ==
    [][(node = "orchestrator"
        /\ ReasoningCount(messages) >= MAX_REASONING_STEPS)
       => /\ messages' = messages
          /\ ready_to_answer'
          /\ should_continue(messages', ready_to_answer') = "writer"]_vars

\* C3 as the specification states it: the writer is entered, the budget not being exhausted,
\* only with at least 2 reasoning messages in the log.
C3_MinDepthTwo ==
    (node = "writer" /\ ReasoningCount(messages) < MAX_REASONING_STEPS)
    => ReasoningCount(messages) >= 2

\* C3 as the code has it: the writer is entered only with at least 1 reasoning
\* message in the log (a ready decision of the first step is kept).
C3_MinDepthOne == node = "writer" => ReasoningCount(messages) >= 1

\* C3: the writer is entered after one reasoning step whose ready decision
\* the orchestrator kept.
C3_Witness ==
    /\ node = "writer"
    /\ ReasoningCount(messages) = 1
    /\ Last(messages).type = "reasoning"
    /\ Last(messages).ready_for_final_answer
    /\ ready_to_answer

\* The tool calls of a log that precede position j and carry the id of the
\* message at j.
MatchingCalls(msgs, j) ==
    {i \in OfType(msgs, "tool_call") : i < j /\ msgs[i].call_id = msgs[j].call_id}

\* The tool results of a log that follow position i and carry the id of the
\* message at i.
MatchingResults(msgs, i) ==
    {j \in OfType(msgs, "tool") : j > i /\ msgs[j].call_id = msgs[i].call_id}

\* C4: every tool result of the log carries the id of exactly one tool call
\* that precedes it, the results of failed dispatches included.
C4_ResultHasCall ==
    \A j \in OfType(messages, "tool") :
        Cardinality(MatchingCalls(messages, j)) = 1

\* C5: audit completeness.  Every tool call of the log that is not the last
\* entry has exactly one tool result later in the log with its call id.
C5_AuditComplete ==
    \A i \in OfType(messages, "tool_call") :
        i < Len(messages) => Cardinality(MatchingResults(messages, i)) = 1

\* C5: two dispatches have logged a tool call each.
C5_Witness ==
    /\ Cardinality(OfType(messages, "tool_call")) = 2
    /\ outcome = "tool_ok"

\* C6: after a dispatch whose selected tool raised, the log ends with the
\* tool call (selected name and call id) followed by the error result.
C6_CallLoggedBeforeRaise ==
    (node = "orchestrator" /\ outcome = "tool_raised")
    => /\ Len(messages) >= 2
       /\ messages[Len(messages) - 1].type = "tool_call"
       /\ messages[Len(messages) - 1].name \in tools
       /\ Last(messages).type = "tool"
       /\ Last(messages).error

\* C7: a tool that raises does not abort the cycle.  After such a dispatch
\* the driver is at the orchestrator and the log ends with a tool result
\* that is marked as an error and carries the error text.
C7_RaiseIsRecovered ==
    outcome = "tool_raised"
    => /\ node = "orchestrator"
       /\ Last(messages).type = "tool"
       /\ Last(messages).error
       /\ Last(messages).content = <<"Tool execution failed", "tool error">>

\* C7: the cycle has gone on to the writer with the error result of a
\* raising tool in its log.
C7_Witness ==
    /\ node = "writer"
    /\ \E i \in OfType(messages, "tool") :
         messages[i].error
         /\ messages[i].content = <<"Tool execution failed", "tool error">>

\* C8: append-only log.  Across every step of a node the log before the
\* step is a prefix of the log after it.
C8_AppendOnly ==
    [][(node \in NodeNames) => IsPrefix(messages, messages')]_vars

\* C9: the log holds at most one final-answer message, and that one is the
\* last message.
C9_OneFinalAnswerLast ==
    /\ Cardinality(OfType(messages, "final")) <= 1
    /\ \A i \in OfType(messages, "final") : i = Len(messages)

\* C9: the writer has run and the log ends with its final answer.
C9_Witness ==
    /\ node = "END"
    /\ outcome = "written"
    /\ Last(messages) = FinalMessage(final_answer)

\* C10: the number of reasoning messages never decreases across a step
\* (the writer's included) and never exceeds MAX_REASONING_STEPS.
C10_CountMonotoneBounded ==
    [][/\ ReasoningCount(messages') >= ReasoningCount(messages)
       /\ ReasoningCount(messages') <= MAX_REASONING_STEPS]_vars

\* C11 with the threshold of two: after an orchestrator step that left
\* through the fallback, ready_to_answer is true exactly when the log holds
\* 2 or more reasoning messages.
C11_FallbackReadyAtTwo ==
    (node = "should_continue" /\ outcome = "fallback")
    => (ready_to_answer <=> ReasoningCount(messages) >= 2)

\* C11: fallback determinism.  After an orchestrator step that left through
\* the fallback, ready_to_answer is true exactly when the log (which the
\* step left as it was) holds 1 or more reasoning messages.
C11_FallbackReadyAtOne ==
    (node = "should_continue" /\ outcome = "fallback")
    => (ready_to_answer <=> ReasoningCount(messages) >= 1)

\* C11: the gateway failed with exactly one reasoning message logged, and
\* the fallback reported ready.
C11_Witness ==
    /\ node = "should_continue"
    /\ outcome = "fallback"
    /\ ReasoningCount(messages) = 1
    /\ ready_to_answer

\* C12: a gateway failure during a reasoning step is not raised out of
\* orchestrator_node.  The step that leaves through the fallback returns
\* normally (the driver goes on to the conditional edge) and the log after
\* it is the log before it.
C12_GatewayFailureContained ==
    [][(node = "orchestrator" /\ outcome' = "fallback")
       => /\ node' = "should_continue"
          /\ messages' = messages]_vars

\* C12: the gateway failed on the first reasoning step of the cycle and the
\* driver is at the conditional edge with the question alone in the log.
C12_Witness ==
    /\ node = "should_continue"
    /\ outcome = "fallback"
    /\ Len(messages) = 1
    /\ Last(messages).type = "human"

\* C13: the routing function.  With a reasoning message in the log, the
\* edge taken after the orchestrator is "tools" if the last reasoning
\* message has use_tools (its ready flag notwithstanding), otherwise
\* "writer" if it has ready_for_final_answer or ready_to_answer is set,
\* otherwise "orchestrator".
C13_Routing ==
    [][(node = "should_continue" /\ ReasoningCount(messages) > 0)
       => LET last == messages[Max(OfType(messages, "reasoning"))] IN
          node' = IF last.use_tools THEN "tools"
                  ELSE IF last.ready_for_final_answer \/ ready_to_answer
                       THEN "writer"
                       ELSE "orchestrator"]_vars

\* C13: the edge led to the tools although the last reasoning message also
\* declared the answer ready.
C13_Witness ==
    /\ node = "tools"
    /\ Last(messages).type = "reasoning"
    /\ Last(messages).use_tools
    /\ Last(messages).ready_for_final_answer
    /\ ready_to_answer

C15_ToolsLeadToOrchestrator ==
    [][(node = "tools") => node' = "orchestrator"]_vars

\* C15: a successful dispatch has handed over to the orchestrator with the
\* tool call and its result at the end of the log.
C15_Witness ==
    /\ node = "orchestrator"
    /\ outcome = "tool_ok"
    /\ Last(messages).type = "tool"
    /\ ~Last(messages).error

\* C16: the writer is terminal and runs at most once.  No node runs once
\* the cycle has ended, END is entered only from the writer, the writer is
\* entered only by the conditional edge after the orchestrator, and the
\* step of the writer ends the cycle.
C16_WriterTerminal ==
    [][/\ node \notin Finished
       /\ node' = "END" => node = "writer"
       /\ node' = "writer" => node = "should_continue"
       /\ node = "writer" => node' \in Finished]_vars

\* C16: the cycle has ended through the writer.
C16_Witness ==
    /\ node = "END"
    /\ final_answer \in Answers
    /\ Len(history) = 1

\* C17: a dispatch with an empty registry leaves the log as it was but for
\* one appended tool result that is marked as an error.
C17_EmptyRegistryAppendsError ==
    [][(node = "tools" /\ tools = {})
       => /\ Len(messages') = Len(messages) + 1
          /\ IsPrefix(messages, messages')
          /\ Last(messages').type = "tool"
          /\ Last(messages').error]_vars

\* C18: a dispatch whose selected tool name is not registered appends a
\* tool result marked as an error, and the orchestrator runs next.
C18_UnknownToolAppendsError ==
    [][(node = "tools" /\ outcome' = "unknown_tool")
       => /\ node' = "orchestrator"
          /\ Len(messages') = Len(messages) + 1
          /\ IsPrefix(messages, messages')
          /\ Last(messages').type = "tool"
          /\ Last(messages').error]_vars

\* C19: a gateway failure during tool selection.  The dispatch appends
\* exactly one message, a tool result marked as an error with the name
\* "error" and the id tool_<thread>_error that no tool call of the log
\* carries; it appends no tool call and the orchestrator runs next.
C19_SelectionFailureResult ==
    [][(node = "tools" /\ outcome' = "select_failed")
       => /\ node' = "orchestrator"
          /\ Len(messages') = Len(messages) + 1
          /\ IsPrefix(messages, messages')
          /\ Last(messages').type = "tool"
          /\ Last(messages').error
          /\ Last(messages').name = "error"
          /\ Last(messages').call_id = <<"tool", thread_id, "error">>
          /\ \A i \in OfType(messages', "tool_call") :
                 messages'[i].call_id # Last(messages').call_id]_vars

\* C19: the selection failed and the orchestrator is next, with the error
\* result of the failed selection at the end of the log.
C19_Witness ==
    /\ node = "orchestrator"
    /\ outcome = "select_failed"
    /\ Last(messages).name = "error"
    /\ Last(messages).content = <<"Tool execution failed", "gateway error">>

\* C20: call ids are unique within the log: no two tool calls share a call
\* id and no two tool results share a call id.
C20_CallIdsUnique ==
    \A t \in {"tool_call", "tool"} :
        \A i, j \in OfType(messages, t) :
            messages[i].call_id = messages[j].call_id => i = j

---------------------------------------------------------------------------
(* Properties of run_conversation, of the writer's request and of the      *)
(* orchestrator's frame.                                                   *)

CycleNodes == {"orchestrator", "should_continue", "tools", "writer"}

\* The entries of the log a request is to carry: reasoning steps, tool
\* calls and tool results, in log order.
IsLogged(m) == m.type \in {"reasoning", "tool_call", "tool"}

\* The entries of a request that are built from single steps, in order.
RequestSteps(req) ==
    LET IsStep(e) == e.part = "step"
        steps == SelectSeq(req, IsStep)
    IN  [i \in 1..Len(steps) |-> steps[i].from]

\* C21: when a cycle has reached END, run_conversation prints the writer's
\* final answer and extends its history by the one pair (question of the
\* cycle, final answer), the earlier pairs staying as they are.
C21_AnswerReturnedAndRecorded ==
    [][(node = "END")
       => /\ printed' = final_answer
          /\ session_history' =
                 Append(session_history, <<user_input, final_answer>>)]_vars

\* C22: neither the orchestrator nor the writer changes State.history: the
\* value after each of their steps is the value before it.
C22_NodesKeepHistory ==
    [][(node \in {"orchestrator", "writer"}) => history' = history]_vars

\* C23: an abandoned cycle leaves no trace.  A cycle that is interrupted or
\* ended by an exception leaves run_conversation's history as it was, no
\* step of a running cycle changes that history, and the next cycle starts
\* from a log that holds its own question alone and from that history.
C23_AbandonedCycleLeavesNoTrace ==
    [][/\ (node \in CycleNodes \cup {"raised"})
              => session_history' = session_history
       /\ (node' = "prompt" /\ outcome' \in {"interrupted", "error"})
              => /\ session_history' = session_history
                 /\ messages' = <<HumanMessage(user_input)>>
       /\ (node = "prompt" /\ node' = "orchestrator")
              => /\ messages' = <<HumanMessage(user_input')>>
                 /\ history' = session_history
                 /\ session_history' = session_history]_vars

\* C23: a cycle was interrupted; back at the prompt the log holds the
\* question alone and the history is what it was at the start of the cycle.
C23_Witness ==
    /\ node = "prompt"
    /\ outcome = "interrupted"
    /\ printed = "Interrupted"
    /\ messages = <<HumanMessage(user_input)>>
    /\ session_history = <<>>

\* C24: a writer failure is fatal for the cycle.  The writer's step whose
\* model call raises lets the exception out, leaves log, history and
\* final_answer as they were, and run_conversation then reports an error
\* and does not extend its history.
C24_WriterFailureFatal ==
    [][/\ (node = "writer" /\ outcome' = "writer_failed")
              => /\ node' = "raised"
                 /\ messages' = messages
                 /\ history' = history
                 /\ final_answer' = final_answer
                 /\ session_history' = session_history
       /\ (node = "raised")
              => /\ outcome = "writer_failed"
                 /\ node' = "prompt"
                 /\ printed' = "Error"
                 /\ OfType(messages', "final") = {}
                 /\ session_history' = session_history]_vars

\* C24: the writer's model call failed and run_conversation is back at its
\* prompt with the error reported and no answer recorded.
C24_Witness ==
    /\ node = "prompt"
    /\ outcome = "error"
    /\ printed = "Error"
    /\ final_answer = NoAnswer
    /\ session_history = <<>>

\* C25: the tools node is entered only when the log has a reasoning message
\* and the last one has use_tools = true.
C25_ToolsOnlyOnRequest ==
    node = "tools"
    => /\ ReasoningCount(messages) > 0
       /\ messages[Max(OfType(messages, "reasoning"))].use_tools

\* C25: the tools node is entered on the request of a second reasoning
\* step.
C25_Witness ==
    /\ node = "tools"
    /\ ReasoningCount(messages) = 2
    /\ Last(messages).use_tools
    /\ ~Last(messages).ready_for_final_answer

C27_NoToolsNoToolUse ==
    tools = {} => (node # "tools" /\ ToolRequests(messages) = 0)

\* C28: every step of the orchestrator adds exactly one reasoning message
\* to the log, and no step of the tools node changes the number of
\* reasoning messages.
C28_OneStepOneReasoning ==
    [][/\ (node = "orchestrator")
              => ReasoningCount(messages') = ReasoningCount(messages) + 1
       /\ (node = "tools")
              => ReasoningCount(messages') = ReasoningCount(messages)]_vars

\* C29: the orchestrator is a pure decision step.  Its step leaves the log
\* as it was or appends one message of the reasoning kind, and leaves
\* final_answer as it was.
C29_OrchestratorOnlyReasons ==
    [][(node = "orchestrator")
       => /\ final_answer' = final_answer
          /\ \/ messages' = messages
             \/ /\ Len(messages') = Len(messages) + 1
                /\ IsPrefix(messages, messages')
                /\ Last(messages').type = "reasoning"]_vars

\* C29: the orchestrator has appended a reasoning step that declares the
\* answer ready, and no final answer exists yet.
C29_Witness ==
    /\ node = "should_continue"
    /\ outcome = "reasoned"
    /\ Last(messages).type = "reasoning"
    /\ Last(messages).ready_for_final_answer
    /\ OfType(messages, "final") = {}
    /\ final_answer = NoAnswer

\* C30: when the writer is entered, the request it builds for its model
\* carries the question of the cycle and every reasoning step, tool call
\* and tool result of the log, in log order.
C30_WriterReadsWholeLog ==
    node = "writer"
    => LET req == writer_messages(history) IN
       /\ \E k \in 1..Len(req) :
              req[k].part = "question" /\ req[k].from = user_input
       /\ RequestSteps(req) = SelectSeq(messages, IsLogged)

\* C31: no two dispatches on one reasoning message.  The tools node is
\* entered right after the reasoning message that requests it; it is
\* entered a second time on the strength of that message exactly when the
\* conditional edge leads to the tools after an orchestrator step that
\* appended nothing (cap or fallback).  The edge never does.
C31_NewReasoningBetweenDispatches ==
    [][(node = "should_continue" /\ outcome # "reasoned")
       => node' # "tools"]_vars

\* C32: after an orchestrator step that appends a reasoning message,
\* ready_to_answer is the ready_for_final_answer flag of that message, and
\* no step of the tools node changes ready_to_answer.
C32_ReadyFollowsReasoning ==
    [][/\ (node = "orchestrator" /\ outcome' = "reasoned")
              => /\ Last(messages').type = "reasoning"
                 /\ Len(messages') = Len(messages) + 1
                 /\ ready_to_answer' = Last(messages').ready_for_final_answer
       /\ (node = "tools") => ready_to_answer' = ready_to_answer]_vars

\* C32: a dispatch has run after a reasoning step that requested a tool and
\* declared the answer ready, and ready_to_answer is still set.
C32_Witness ==
    /\ node = "orchestrator"
    /\ outcome = "tool_ok"
    /\ ready_to_answer
    /\ messages[Max(OfType(messages, "reasoning"))].ready_for_final_answer

\* C33: while a cycle runs, its log starts with the human message of its
\* question and holds no other human message; a cycle starts from the log
\* that holds that message alone.
C33_LogStartsWithQuestion ==
    /\ (node \in CycleNodes)
           => /\ Len(messages) >= 1
              /\ messages[1] = HumanMessage(user_input)
              /\ OfType(messages, "human") = {1}
    /\ (node = "orchestrator" /\ outcome = "start")
           => messages = <<HumanMessage(user_input)>>

\* C33: reasoning and a dispatch whose tool raised have extended the log,
\* which still starts with the question as its only human message.
C33_Witness ==
    /\ node = "orchestrator"
    /\ outcome = "tool_raised"
    /\ Len(messages) >= 3
    /\ messages[1] = HumanMessage(user_input)
    /\ Cardinality(OfType(messages, "human")) = 1

\* The key under which a tool is handed an argument that is no dict.
ArgumentKey(name) ==
    IF name = "python_repl" THEN "code"
    ELSE IF name = "tavily_search" THEN "query"
    ELSE "input"

\* C34 with the string as the payload: when tool_arguments arrives as a
\* string, the arguments given to the tool and recorded in the tool call
\* are the parsed object if the string parses as JSON, and the string
\* itself if it does not.
C34_StringPassedThrough ==
    [][(node = "tools" /\ outcome' = "tool_ok"
        /\ response.tool_arguments.kind = "str")
       => LET raw == response.tool_arguments
              parsed == json_loads(raw.text)
              call == messages'[Len(messages') - 1]
          IN  call.args = IF parsed.ok THEN parsed.value ELSE raw]_vars

\* C34: string arguments.  When tool_arguments arrives as a string, the
\* dispatch parses it as JSON and prepares the arguments from the parsed
\* value; a string that does not parse is kept as it is.  The arguments
\* given to the tool and recorded in the tool call are a dict: for
\* python_repl and tavily_search the one key "code" or "query", holding
\* that key of a parsed dict ("" if absent) or else the text of the value;
\* for any other tool the parsed dict itself, or the value under "input".
C34_StringArgumentsPrepared ==
    [][(node = "tools" /\ outcome' = "tool_ok"
        /\ response.tool_arguments.kind = "str")
       => LET raw == response.tool_arguments
              name == response.tool_name
              key == ArgumentKey(name)
              parsed == json_loads(raw.text)
              value == IF parsed.ok THEN parsed.value ELSE raw
              call == messages'[Len(messages') - 1]
              result == messages'[Len(messages')]
          IN  /\ call.type = "tool_call"
              /\ result.args = call.args
              /\ ~parsed.ok => call.args = PyDict({<<key, raw>>})
              /\ (name \in {"python_repl", "tavily_search"}
                  /\ value.kind = "dict")
                     => call.args =
                            PyDict({<<key, dict_get(value, key, PyStr(""))>>})
              /\ (name \in {"python_repl", "tavily_search"}
                  /\ value.kind # "dict")
                     => call.args = PyDict({<<key, PyStr(value.text)>>})
              /\ (name \notin {"python_repl", "tavily_search"})
                     => call.args = IF value.kind = "dict" THEN value
                                    ELSE PyDict({<<key, value>>})]_vars

\* C34: python_repl was selected with a string that is no JSON, and the
\* tool call records the string under "code".
C34_Witness ==
    /\ node = "orchestrator"
    /\ outcome = "tool_ok"
    /\ response.tool_name = "python_repl"
    /\ response.tool_arguments = PyStr("print(1)")
    /\ messages[Len(messages) - 1].args = PyDict({<<"code", PyStr("print(1)")>>})

===========================================================================
